---- MODULE Spec2Model ----
(***************************************************************************)
(* Model of src/fact_emitter.rs: the fact emitter of polonius.next.        *)
(*                                                                         *)
(* A parsed Program is turned into six fact relations by                   *)
(*   FactEmitter::new        (the loan pre-pass),                          *)
(*   FactEmitter::emit_facts (one emit_block_facts call per basic block),  *)
(*   Display for Facts       (the per-node textual rendering).             *)
(*                                                                         *)
(* Strings that are only compared for equality (origins, variable, struct  *)
(* and field names) are TLA+ strings.  Node names are ordered by the       *)
(* renderer's BTreeMap<&str, _>, so they are sequences of byte values.     *)
(***************************************************************************)
EXTENDS Integers, Sequences, FiniteSets, TLC

VARIABLES
    program,        \* FactEmitter.program: the parsed input
    simple_nodes,   \* whether the SIMPLE_NODES environment variable is set
    loans,          \* FactEmitter.loans: Place -> sequence of (Origin, Location)
    facts,          \* the Facts value being filled by emit_facts
    pc,             \* "new", "emit", "render", "done"
    block_pos,      \* position (1-based) of the next block emit_facts visits
    output          \* the rendered entries, once Display has run

vars == <<program, simple_nodes, loans, facts, pc, block_pos, output>>

----------------------------------------------------------------------------
(* Bounds of the enumerated inputs *)

\* size of an input program: its statements plus its successor entries
MaxSize == 3
\* the statements of a long input program, at most
MaxStatements == 27

----------------------------------------------------------------------------
(* ast: types, places, expressions, statements as fact_emitter.rs uses them *)

I32 == [tag |-> "I32"]
Unit == [tag |-> "Unit"]
Ref(o, t) == [tag |-> "Ref", origin |-> o, ty |-> t]
RefMut(o, t) == [tag |-> "RefMut", origin |-> o, ty |-> t]
Struct(n, ps) == [tag |-> "Struct", name |-> n, parameters |-> ps]

ParamOrigin(o) == [tag |-> "Origin", origin |-> o]
ParamTy(t) == [tag |-> "Ty", ty |-> t]

GenericOrigin(n) == [tag |-> "Origin", name |-> n]
GenericTy(n) == [tag |-> "Ty", name |-> n]

\* A place: `base` is the variable's name, with a leading "*" when deref'd.
Place(b, fs) == [base |-> b, fields |-> fs]

Borrow(o) == [tag |-> "Borrow", origin |-> o]
BorrowMut(o) == [tag |-> "BorrowMut", origin |-> o]
Copy == [tag |-> "Copy"]
Move == [tag |-> "Move"]

Access(k, p) == [tag |-> "Access", kind |-> k, place |-> p]
Call(n, args) == [tag |-> "Call", name |-> n, arguments |-> args]
\* any other expression (a number literal, unit): no facts
Number == [tag |-> "Number"]

\* `src` is the input text the statement's span covers, terminator included
Assign(p, e, src) == [tag |-> "Assign", place |-> p, expr |-> e, src |-> src]
ExprStmt(e, src) == [tag |-> "Expr", place |-> Place(<<>>, <<>>), expr |-> e, src |-> src]

----------------------------------------------------------------------------
(* The enumerated input programs *)

\* struct S<'a, T> { f: T, g: i32 }
StructDecls ==
    << [name |-> "S",
        generic_decls |-> <<GenericOrigin("'a"), GenericTy("T")>>,
        field_decls |-> << [name |-> "f", ty |-> Struct("T", <<>>)],
                           [name |-> "g", ty |-> I32] >>] >>

TyV == Struct("S", <<ParamOrigin("'a"), ParamTy(Ref("'b", I32))>>)

\* let x: i32; let r: &'a i32; let m: &'m mut i32;
\* let v: S<'a, &'b i32>; let w: &'c S<'a, &'b i32>;
Variables ==
    << [name |-> <<"x">>, ty |-> I32],
       [name |-> <<"r">>, ty |-> Ref("'a", I32)],
       [name |-> <<"m">>, ty |-> RefMut("'m", I32)],
       [name |-> <<"v">>, ty |-> TyV],
       [name |-> <<"w">>, ty |-> Ref("'c", TyV)] >>

PX == Place(<<"x">>, <<>>)
PR == Place(<<"r">>, <<>>)
PM == Place(<<"m">>, <<>>)
PV == Place(<<"v">>, <<>>)
PW == Place(<<"w">>, <<>>)
PVf == Place(<<"v">>, <<"f">>)
PDerefR == Place(<<"*", "r">>, <<>>)

StmtPool ==
    { Assign(PX, Number, <<"x = 0", ";">>),
      Assign(PR, Access(Borrow("'o"), PX), <<"r = &'o x", ";">>),
      Assign(PM, Access(BorrowMut("'m"), PX), <<"m = &'m mut x", ";">>),
      ExprStmt(Access(Copy, PDerefR), <<"*r", ";">>),
      ExprStmt(Call("g", <<Access(Copy, PR), Access(Move, PV)>>),
               <<"g(copy r, move v)", ";">>),
      Assign(PX, Call("f", <<Access(Copy, PM), Access(BorrowMut("'p"), PX)>>),
             <<"x = f(copy m, &'p mut x)", ";">>),
      Assign(PW, Access(BorrowMut("'o"), PV), <<"w = &'o mut v", ";">>),
      Assign(PR, Access(Move, PVf), <<"r = move v.f", ";">>) }

\* block names "bb1" and "bb0" as bytes, in the order the program declares them
BlockNames == << <<98, 98, 49>>, <<98, 98, 48>> >>

StmtSeqs(n) == UNION { [1..k -> StmtPool] : k \in 0..n }
SuccSeqs(names, n) == UNION { [1..k -> names] : k \in 0..n }

BasicBlock(n, ss, su) == [name |-> n, statements |-> ss, successors |-> su]

Program(bbs) ==
    [variables |-> Variables, struct_decls |-> StructDecls, basic_blocks |-> bbs]

\* a program of one block, or of two blocks that share the statements `ss`
IsInput(p) ==
    \/ \E ss \in StmtSeqs(MaxSize) :
       \E su \in SuccSeqs({BlockNames[1]}, MaxSize - Len(ss)) :
          p = Program(<<BasicBlock(BlockNames[1], ss, su)>>)
    \/ \E ss \in StmtSeqs(MaxSize) :
       \E k \in 0..Len(ss) :
       \E su1 \in SuccSeqs({BlockNames[1], BlockNames[2]}, MaxSize - Len(ss)) :
       \E su2 \in SuccSeqs({BlockNames[1], BlockNames[2]},
                            MaxSize - Len(ss) - Len(su1)) :
          p = Program(<<BasicBlock(BlockNames[1], SubSeq(ss, 1, k), su1),
                        BasicBlock(BlockNames[2], SubSeq(ss, k + 1, Len(ss)), su2)>>)

EmptyFacts ==
    [access_origin |-> <<>>, cfg_edge |-> <<>>, clear_origin |-> <<>>,
     introduce_subset |-> <<>>, invalidate_origin |-> <<>>, node_text |-> <<>>]

----------------------------------------------------------------------------
(* FactEmitter::new: the loan pre-pass *)

Location(block_idx, statement_idx) ==
    [block_idx |-> block_idx, statement_idx |-> statement_idx]

\* loans.entry(place).or_default().push(item)
PushLoan(l, place, item) ==
    IF place \in DOMAIN l
    THEN [l EXCEPT ![place] = Append(@, item)]
    ELSE l @@ (place :> <<item>>)

IsBorrowAccess(expr) ==
    /\ expr.tag = "Access"
    /\ expr.kind.tag \in {"Borrow", "BorrowMut"}

\* the two nested loops of `new`, from statement si (1-based) of block bi on
RECURSIVE CollectLoans(_, _, _, _)
CollectLoans(bbs, bi, si, l) ==
    IF bi > Len(bbs) THEN l
    ELSE IF si > Len(bbs[bi].statements) THEN CollectLoans(bbs, bi + 1, 1, l)
    ELSE LET expr == bbs[bi].statements[si].expr
         IN  IF IsBorrowAccess(expr)
             THEN CollectLoans(bbs, bi, si + 1,
                      PushLoan(l, expr.place,
                               <<expr.kind.origin, Location(bi - 1, si - 1)>>))
             ELSE CollectLoans(bbs, bi, si + 1, l)

EmptyLoans == [p \in {} |-> <<>>]

\* self.loans.get(place), as the list of loans (empty when there is none)
LoansOf(place) == IF place \in DOMAIN loans THEN loans[place] ELSE <<>>

----------------------------------------------------------------------------
(* node_at *)

RECURSIVE Decimal(_)
Decimal(n) == IF n < 10 THEN <<48 + n>> ELSE Decimal(n \div 10) \o <<48 + (n % 10)>>

\* char::from_u32: None for a surrogate or a value past char::MAX
FromU32Ok(c) == c < 55296 \/ (c > 57343 /\ c <= 1114111)

\* char::to_string: the UTF-8 bytes of the char
Utf8(c) ==
    IF c < 128 THEN <<c>>
    ELSE IF c < 2048 THEN <<192 + (c \div 64), 128 + (c % 64)>>
    ELSE IF c < 65536
         THEN <<224 + (c \div 4096), 128 + ((c \div 64) % 64), 128 + (c % 64)>>
         ELSE <<240 + (c \div 262144), 128 + ((c \div 4096) % 64),
                128 + ((c \div 64) % 64), 128 + (c % 64)>>

\* take_while(|bb| block != bb.name).fold(0, |acc, bb| acc + bb.statements.len())
RECURSIVE StatementStartIdx(_, _, _)
StatementStartIdx(bbs, i, block) ==
    IF i > Len(bbs) \/ bbs[i].name = block THEN 0
    ELSE Len(bbs[i].statements) + StatementStartIdx(bbs, i + 1, block)

\* char::from_u32(node_idx).unwrap_or_else(|| panic!(..)): node_at panics
node_at_panics(block, statement_idx) ==
    /\ simple_nodes
    /\ ~FromU32Ok(97 + StatementStartIdx(program.basic_blocks, 1, block) + statement_idx)

node_at(block, statement_idx) ==
    IF simple_nodes
    THEN Utf8(97 + StatementStartIdx(program.basic_blocks, 1, block) + statement_idx)
    ELSE block \o <<91>> \o Decimal(statement_idx) \o <<93>>

----------------------------------------------------------------------------
(* Ty::is_ref, Ty::collect_origins_into, Place::deref_base,                *)
(* ty_and_origins_of_place                                                 *)

is_ref(ty) == ty.tag \in {"Ref", "RefMut"}

RECURSIVE collect_origins_into(_, _)
RECURSIVE CollectParams(_, _, _)
collect_origins_into(ty, origins) ==
    CASE ty.tag \in {"Ref", "RefMut"} ->
            collect_origins_into(ty.ty, Append(origins, ty.origin))
      [] ty.tag = "Struct" -> CollectParams(ty.parameters, 1, origins)
      [] OTHER -> origins

CollectParams(params, i, origins) ==
    IF i > Len(params) THEN origins
    ELSE IF params[i].tag = "Origin"
         THEN CollectParams(params, i + 1, Append(origins, params[i].origin))
         ELSE CollectParams(params, i + 1, collect_origins_into(params[i].ty, origins))

\* the base without its leading "*", or the base itself
deref_base(place) ==
    IF Len(place.base) > 0 /\ Head(place.base) = "*" THEN Tail(place.base) ELSE place.base

\* iter().find(..) / iter().position(..): the first of the matching indices
First(matching) == CHOOSE i \in matching : \A j \in matching : i <= j

\* one step of the fold over place.fields: the type of `field_name` in `ty`
FieldTy(ty, field_name) ==
    LET decls == program.struct_decls
        decl == decls[First({i \in 1..Len(decls) : decls[i].name = ty.name})]
        fields == decl.field_decls
        field == fields[First({i \in 1..Len(fields) : fields[i].name = field_name})]
        generics == decl.generic_decls
        positions == {i \in 1..Len(generics) :
                        generics[i].tag = "Ty" /\ generics[i].name = field.ty.name}
    IN  IF field.ty.tag = "Struct" /\ positions # {}
        THEN ty.parameters[First(positions)].ty
        ELSE field.ty

RECURSIVE FoldFields(_, _, _, _)

\* FoldFields without `ty.collect_origins_into(&mut origins)` for the parent types
FoldFieldsLeafOnly(fields, i, ty, origins) ==
    IF i > Len(fields) THEN [ty |-> ty, origins |-> origins]
    ELSE FoldFields(fields, i + 1, FieldTy(ty, fields[i]), origins)

\* the fold over place.fields, from field i on: the type and the origins so far
FoldFields(fields, i, ty, origins) ==
    IF i > Len(fields) THEN [ty |-> ty, origins |-> origins]
    ELSE FoldFields(fields, i + 1, FieldTy(ty, fields[i]),
                    collect_origins_into(ty, origins))

ty_and_origins_of_place(place) ==
    LET base == deref_base(place)
        vs == program.variables
        v == vs[First({i \in 1..Len(vs) : vs[i].name = base})]
        folded == FoldFields(place.fields, 1, v.ty, <<>>)
    IN  [ty |-> folded.ty, origins |-> collect_origins_into(folded.ty, folded.origins)]

----------------------------------------------------------------------------
(* emit_cfg_edges, emit_expr_facts, emit_subset_facts, emit_block_facts *)

\* PushAll that skips a tuple the relation already holds
PushAllOnce(F, rel, ts) ==
    [F EXCEPT ![rel] =
        @ \o SelectSeq(ts, LAMBDA t : \A k \in 1..Len(F[rel]) : F[rel][k] # t)]

\* facts.<rel>.push(t) for every t of ts, in order
PushAll(F, rel, ts) == [F EXCEPT ![rel] = @ \o ts]

saturating_sub(a, b) == IF a >= b THEN a - b ELSE 0

\* emit_cfg_edges whose inter-block edges leave node `statement_count`
emit_cfg_edges_from_count(bb, F) ==
    LET statement_count == Len(bb.statements)
        intra == [i \in 1..saturating_sub(statement_count, 1) |->
                    <<node_at(bb.name, i - 1), node_at(bb.name, i)>>]
        inter == [j \in 1..Len(bb.successors) |->
                    <<node_at(bb.name, statement_count), node_at(bb.successors[j], 0)>>]
    IN  PushAll(PushAll(F, "cfg_edge", intra), "cfg_edge", inter)

emit_cfg_edges(bb, F) ==
    LET statement_count == Len(bb.statements)
        intra == [i \in 1..saturating_sub(statement_count, 1) |->
                    <<node_at(bb.name, i - 1), node_at(bb.name, i)>>]
        inter == [j \in 1..Len(bb.successors) |->
                    <<node_at(bb.name, saturating_sub(statement_count, 1)),
                      node_at(bb.successors[j], 0)>>]
    IN  PushAll(PushAll(F, "cfg_edge", intra), "cfg_edge", inter)

\* <<origin, node>> for every origin of the list
AtNode(origins, node) == [i \in 1..Len(origins) |-> <<origins[i], node>>]
\* <<origin, node>> for every (origin, location) of the loan list
LoanOriginsAt(ls, node) == [i \in 1..Len(ls) |-> <<ls[i][1], node>>]

RECURSIVE emit_expr_facts(_, _, _)
RECURSIVE EmitArguments(_, _, _, _)

\* emit_expr_facts that treats a mutable borrow as a shared one
emit_expr_facts_shared(node, expr, F) ==
    CASE expr.tag = "Access" /\ expr.kind.tag \in {"Borrow", "BorrowMut"} ->
            PushAll(F, "clear_origin", <<<<expr.kind.origin, node>>>>)
      [] expr.tag = "Access" /\ expr.kind.tag \in {"Copy", "Move"} ->
            PushAll(F, "access_origin",
                    AtNode(ty_and_origins_of_place(expr.place).origins, node))
      [] expr.tag = "Call" -> EmitArguments(node, expr.arguments, 1, F)
      [] OTHER -> F

\* emit_expr_facts in which a move also clears the origins it reads
emit_expr_facts_move_clears(node, expr, F) ==
    CASE expr.tag = "Access" /\ expr.kind.tag \in {"Borrow", "BorrowMut"} ->
            LET F1 == PushAll(F, "clear_origin", <<<<expr.kind.origin, node>>>>)
            IN  IF expr.kind.tag = "BorrowMut"
                THEN LET origins == ty_and_origins_of_place(expr.place).origins
                         F2 == PushAll(F1, "access_origin", AtNode(origins, node))
                     IN  PushAll(F2, "invalidate_origin",
                                 LoanOriginsAt(LoansOf(expr.place), node))
                ELSE F1
      [] expr.tag = "Access" /\ expr.kind.tag \in {"Copy", "Move"} ->
            LET origins == ty_and_origins_of_place(expr.place).origins
                F1 == PushAll(F, "access_origin", AtNode(origins, node))
            IN  IF expr.kind.tag = "Move"
                THEN PushAll(F1, "clear_origin", AtNode(origins, node))
                ELSE F1
      [] expr.tag = "Call" -> EmitArguments(node, expr.arguments, 1, F)
      [] OTHER -> F

emit_expr_facts(node, expr, F) ==
    CASE expr.tag = "Access" /\ expr.kind.tag \in {"Borrow", "BorrowMut"} ->
            LET F1 == PushAll(F, "clear_origin", <<<<expr.kind.origin, node>>>>)
            IN  IF expr.kind.tag = "BorrowMut"
                THEN LET origins == ty_and_origins_of_place(expr.place).origins
                         F2 == PushAll(F1, "access_origin", AtNode(origins, node))
                     IN  PushAll(F2, "invalidate_origin",
                                 LoanOriginsAt(LoansOf(expr.place), node))
                ELSE F1
      [] expr.tag = "Access" /\ expr.kind.tag \in {"Copy", "Move"} ->
            PushAll(F, "access_origin",
                    AtNode(ty_and_origins_of_place(expr.place).origins, node))
      [] expr.tag = "Call" -> EmitArguments(node, expr.arguments, 1, F)
      [] OTHER -> F

EmitArguments(node, arguments, i, F) ==
    IF i > Len(arguments) THEN F
    ELSE EmitArguments(node, arguments, i + 1, emit_expr_facts(node, arguments[i], F))

\* emit_subset_facts with the source and the target origin exchanged
emit_subset_facts_swapped(node, lhs_ty, rhs_expr, F) ==
    IF is_ref(lhs_ty)
    THEN CASE rhs_expr.tag = "Access" /\ rhs_expr.kind.tag \in {"Borrow", "BorrowMut"} ->
                PushAll(F, "introduce_subset",
                        <<<<lhs_ty.origin, rhs_expr.kind.origin, node>>>>)
           [] rhs_expr.tag = "Access" /\ rhs_expr.kind.tag \in {"Copy", "Move"} ->
                LET rhs_ty == ty_and_origins_of_place(rhs_expr.place).ty
                IN  IF is_ref(rhs_ty)
                    THEN PushAll(F, "introduce_subset",
                                 <<<<lhs_ty.origin, rhs_ty.origin, node>>>>)
                    ELSE F
           [] OTHER -> F
    ELSE F

emit_subset_facts(node, lhs_ty, rhs_expr, F) ==
    IF is_ref(lhs_ty)
    THEN CASE rhs_expr.tag = "Access" /\ rhs_expr.kind.tag \in {"Borrow", "BorrowMut"} ->
                PushAll(F, "introduce_subset",
                        <<<<rhs_expr.kind.origin, lhs_ty.origin, node>>>>)
           [] rhs_expr.tag = "Access" /\ rhs_expr.kind.tag \in {"Copy", "Move"} ->
                LET rhs_ty == ty_and_origins_of_place(rhs_expr.place).ty
                IN  IF is_ref(rhs_ty)
                    THEN PushAll(F, "introduce_subset",
                                 <<<<rhs_ty.origin, lhs_ty.origin, node>>>>)
                    ELSE F
           [] OTHER -> F
    ELSE F

\* self.input[span.start()..span.end() - 1]
StatementText(s) == SubSeq(s.src, 1, Len(s.src) - 1)

\* EmitStatement with the test `!lhs_ty.is_ref()` inverted
EmitStatementRefLhs(bb, idx, F) ==
    LET s == bb.statements[idx + 1]
        node == node_at(bb.name, idx)
        F0 == PushAll(F, "node_text", <<<<StatementText(s), node>>>>)
    IN  IF s.tag = "Assign"
        THEN LET lhs == ty_and_origins_of_place(s.place)
                 F1 == PushAll(F0, "clear_origin", AtNode(lhs.origins, node))
                 F2 == IF is_ref(lhs.ty)
                       THEN PushAll(F1, "invalidate_origin",
                                    LoanOriginsAt(LoansOf(s.place), node))
                       ELSE F1
                 F3 == emit_expr_facts(node, s.expr, F2)
             IN  emit_subset_facts(node, lhs.ty, s.expr, F3)
        ELSE emit_expr_facts(node, s.expr, F0)

\* the body of the loop over bb.statements, for statement idx (0-based)
EmitStatement(bb, idx, F) ==
    LET s == bb.statements[idx + 1]
        node == node_at(bb.name, idx)
        F0 == PushAll(F, "node_text", <<<<StatementText(s), node>>>>)
    IN  IF s.tag = "Assign"
        THEN LET lhs == ty_and_origins_of_place(s.place)
                 F1 == PushAll(F0, "clear_origin", AtNode(lhs.origins, node))
                 F2 == IF ~is_ref(lhs.ty)
                       THEN PushAll(F1, "invalidate_origin",
                                    LoanOriginsAt(LoansOf(s.place), node))
                       ELSE F1
                 F3 == emit_expr_facts(node, s.expr, F2)
             IN  emit_subset_facts(node, lhs.ty, s.expr, F3)
        ELSE emit_expr_facts(node, s.expr, F0)

RECURSIVE EmitStatements(_, _, _)
\* (the test on G has TLC compute the facts of statement idx before it turns
\* to the next statement, which keeps the evaluation of a long block shallow)
EmitStatements(bb, idx, F) ==
    IF idx >= Len(bb.statements) THEN F
    ELSE LET G == EmitStatement(bb, idx, F)
         IN  IF G \in {G} THEN EmitStatements(bb, idx + 1, G) ELSE G

emit_block_facts(bb, F) == EmitStatements(bb, 0, emit_cfg_edges(bb, F))

\* one of the node_at calls of emit_block_facts panics
emit_block_panics(bb) ==
    LET statement_count == Len(bb.statements)
    IN  \/ \E idx \in 0..(statement_count - 1) : node_at_panics(bb.name, idx)
        \/ \E j \in 1..Len(bb.successors) :
              \/ node_at_panics(bb.name, saturating_sub(statement_count, 1))
              \/ node_at_panics(bb.successors[j], 0)

----------------------------------------------------------------------------
(* Display for Facts *)

\* the order of &str: bytewise lexicographic
StrLess(a, b) ==
    \E i \in 1..(Len(a) + 1) :
        /\ i <= Len(b)
        /\ \A j \in 1..(i - 1) : j <= Len(b) /\ a[j] = b[j]
        /\ (i > Len(a) \/ a[i] < b[i])

\* the keys of facts_per_node
RenderedNodes(F) ==
    { F.cfg_edge[i][1] : i \in 1..Len(F.cfg_edge) }
    \cup { F.cfg_edge[i][2] : i \in 1..Len(F.cfg_edge) }
    \cup { F.access_origin[i][2] : i \in 1..Len(F.access_origin) }
    \cup { F.invalidate_origin[i][2] : i \in 1..Len(F.invalidate_origin) }
    \cup { F.clear_origin[i][2] : i \in 1..Len(F.clear_origin) }
    \cup { F.introduce_subset[i][3] : i \in 1..Len(F.introduce_subset) }

\* BTreeMap iteration: the keys in ascending order
RECURSIVE SortedNodes(_)
SortedNodes(S) ==
    IF S = {} THEN <<>>
    ELSE LET least == CHOOSE n \in S : \A o \in S \ {n} : StrLess(n, o)
         IN  <<least>> \o SortedNodes(S \ {least})

\* a rendered line: the relation's name and its arguments
Line(rel, args) == [rel |-> rel, args |-> args]

\* the tuples of a relation that are at `node`, in order, as lines
RECURSIVE LinesOf(_, _, _, _)
LinesOf(rel, tuples, i, node) ==
    IF i > Len(tuples) THEN <<>>
    ELSE LET t == tuples[i]
         IN  IF t[Len(t)] = node
             THEN <<Line(rel, SubSeq(t, 1, Len(t) - 1))>> \o LinesOf(rel, tuples, i + 1, node)
             ELSE LinesOf(rel, tuples, i + 1, node)

\* the targets of the cfg edges leaving `node`, in order
RECURSIVE GotoTargets(_, _, _)
GotoTargets(edges, i, node) ==
    IF i > Len(edges) THEN <<>>
    ELSE IF edges[i][1] = node
         THEN <<edges[i][2]>> \o GotoTargets(edges, i + 1, node)
         ELSE GotoTargets(edges, i + 1, node)

Pass == <<"(pass)">>

\* find_map over node_text: the first text recorded for the node
NodeTextOf(F, node) ==
    LET found == {i \in 1..Len(F.node_text) : F.node_text[i][2] = node}
    IN  IF found # {} THEN F.node_text[First(found)][1] ELSE Pass

\* RenderNode with the clear_origin loop ahead of the invalidate_origin loop
RenderNodeClearFirst(F, node) ==
    [node |-> node,
     text |-> NodeTextOf(F, node),
     lines |-> LinesOf("access_origin", F.access_origin, 1, node)
               \o LinesOf("clear_origin", F.clear_origin, 1, node)
               \o LinesOf("invalidate_origin", F.invalidate_origin, 1, node)
               \o LinesOf("introduce_subset", F.introduce_subset, 1, node)
               \o <<Line("goto", GotoTargets(F.cfg_edge, 1, node))>>]

RenderNode(F, node) ==
    [node |-> node,
     text |-> NodeTextOf(F, node),
     lines |-> LinesOf("access_origin", F.access_origin, 1, node)
               \o LinesOf("invalidate_origin", F.invalidate_origin, 1, node)
               \o LinesOf("clear_origin", F.clear_origin, 1, node)
               \o LinesOf("introduce_subset", F.introduce_subset, 1, node)
               \o <<Line("goto", GotoTargets(F.cfg_edge, 1, node))>>]

Render(F) ==
    LET nodes == SortedNodes(RenderedNodes(F))
    IN  [i \in 1..Len(nodes) |-> RenderNode(F, nodes[i])]

----------------------------------------------------------------------------
(* The state machine *)

Init ==
    /\ IsInput(program)
    /\ simple_nodes \in BOOLEAN
    /\ loans = EmptyLoans
    /\ facts = EmptyFacts
    /\ pc = "new"
    /\ block_pos = 1
    /\ output = <<>>

\* FactEmitter::new
New ==
    /\ pc = "new"
    /\ loans' = CollectLoans(program.basic_blocks, 1, 1, EmptyLoans)
    /\ pc' = "emit"
    /\ UNCHANGED <<program, simple_nodes, facts, block_pos, output>>

\* one iteration of the loop of FactEmitter::emit_facts
\* (a panic of node_at unwinds out of emit_facts: no Facts value is returned)
EmitBlockFacts ==
    /\ pc = "emit"
    /\ block_pos <= Len(program.basic_blocks)
    /\ IF emit_block_panics(program.basic_blocks[block_pos])
       THEN /\ pc' = "panicked"
            /\ UNCHANGED <<facts, block_pos>>
       ELSE /\ facts' = emit_block_facts(program.basic_blocks[block_pos], facts)
            /\ block_pos' = block_pos + 1
            /\ pc' = IF block_pos = Len(program.basic_blocks) THEN "render" ELSE "emit"
    /\ UNCHANGED <<program, simple_nodes, loans, output>>

\* Display for Facts
Display ==
    /\ pc = "render"
    /\ output' = Render(facts)
    /\ pc' = "done"
    /\ UNCHANGED <<program, simple_nodes, loans, facts, block_pos>>

Next == New \/ EmitBlockFacts \/ Display

Spec == Init /\ [][Next]_vars

----------------------------------------------------------------------------
(* The same machine on programs of assignments of every shape that          *)
(* emit_subset_facts distinguishes.  The emitter does no type checking, so  *)
(* the pool also holds assignments whose two sides differ in type.          *)

SubsetStmtPool ==
    { Assign(PR, Access(Borrow("'o"), PX), <<"r = &'o x", ";">>),
      Assign(PM, Access(BorrowMut("'m"), PX), <<"m = &'m mut x", ";">>),
      Assign(PR, Access(Move, PVf), <<"r = move v.f", ";">>),
      Assign(PR, Access(Copy, PM), <<"r = copy m", ";">>),
      Assign(PR, Access(Copy, PX), <<"r = copy x", ";">>),
      Assign(PR, Call("f", <<Access(Copy, PM)>>), <<"r = f(copy m)", ";">>),
      Assign(PR, Number, <<"r = 0", ";">>),
      Assign(PX, Access(Copy, PDerefR), <<"x = copy *r", ";">>),
      Assign(PV, Access(Borrow("'o"), PX), <<"v = &'o x", ";">>),
      ExprStmt(Access(Copy, PR), <<"copy r", ";">>),
      ExprStmt(Access(Borrow("'o"), PX), <<"&'o x", ";">>) }

SubsetStmtSeqs(n) == UNION { [1..k -> SubsetStmtPool] : k \in 0..n }

\* a program of one block, or of two blocks that share the statements `ss`
\* and are joined by the edge from the first to the second
IsSubsetInput(p) ==
    \/ \E ss \in SubsetStmtSeqs(MaxSize) :
          p = Program(<<BasicBlock(BlockNames[1], ss, <<>>)>>)
    \/ \E ss \in SubsetStmtSeqs(MaxSize - 1) :
       \E k \in 0..Len(ss) :
          p = Program(<<BasicBlock(BlockNames[1], SubSeq(ss, 1, k), <<BlockNames[2]>>),
                        BasicBlock(BlockNames[2], SubSeq(ss, k + 1, Len(ss)), <<>>)>>)

InitSubset ==
    /\ IsSubsetInput(program)
    /\ simple_nodes \in BOOLEAN
    /\ loans = EmptyLoans
    /\ facts = EmptyFacts
    /\ pc = "new"
    /\ block_pos = 1
    /\ output = <<>>

SpecSubset == InitSubset /\ [][Next]_vars

----------------------------------------------------------------------------
(* The same machine on long programs: up to MaxStatements repetitions of   *)
(* one statement, in one block or split over two blocks.                   *)

LongStmtPool ==
    { Assign(PX, Number, <<"x = 0", ";">>),
      ExprStmt(Access(Copy, PDerefR), <<"*r", ";">>) }

IsLongInput(p) ==
    \E s \in LongStmtPool :
    \E n \in 0..MaxStatements :
       LET ss == [i \in 1..n |-> s]
       IN  \/ p = Program(<<BasicBlock(BlockNames[1], ss, <<>>)>>)
           \/ \E k \in 0..n :
                 p = Program(<<BasicBlock(BlockNames[1], SubSeq(ss, 1, k),
                                          <<BlockNames[2]>>),
                               BasicBlock(BlockNames[2], SubSeq(ss, k + 1, n), <<>>)>>)

InitLong ==
    /\ IsLongInput(program)
    /\ simple_nodes \in BOOLEAN
    /\ loans = EmptyLoans
    /\ facts = EmptyFacts
    /\ pc = "new"
    /\ block_pos = 1
    /\ output = <<>>

SpecLong == InitLong /\ [][Next]_vars

----------------------------------------------------------------------------
(* Vocabulary of the properties *)

Blocks == program.basic_blocks

\* the statements emit_facts has visited so far: <<block position, index>>, 1-based
Emitted ==
    UNION { { <<b, i>> : i \in 1..Len(Blocks[b].statements) } :
            b \in 1..(block_pos - 1) }

StmtAt(b, i) == Blocks[b].statements[i]
NodeOf(b, i) == node_at(Blocks[b].name, i - 1)

\* the origins a two-column relation holds at a node, in the relation's order
OriginsAt(rel, node) ==
    LET s == SelectSeq(facts[rel], LAMBDA t : t[2] = node)
    IN  [k \in 1..Len(s) |-> s[k][1]]

\* the (source, target) pairs introduce_subset holds at a node, in order
SubsetsAt(node) ==
    LET s == SelectSeq(facts.introduce_subset, LAMBDA t : t[3] = node)
    IN  [k \in 1..Len(s) |-> <<s[k][1], s[k][2]>>]

IsPrefix(s, t) == Len(s) <= Len(t) /\ SubSeq(t, 1, Len(s)) = s

Max(a, b) == IF a >= b THEN a ELSE b

\* the origins of the loans recorded for a place, in the index's order
LoanOrigins(place) == [k \in 1..Len(LoansOf(place)) |-> LoansOf(place)[k][1]]

----------------------------------------------------------------------------
(* C1  CFG completeness *)

EdgeCount(b) == Max(Len(Blocks[b].statements) - 1, 0) + Len(Blocks[b].successors)

RECURSIVE EdgeOffset(_)
EdgeOffset(b) == IF b <= 1 THEN 0 ELSE EdgeOffset(b - 1) + EdgeCount(b - 1)

\* C1: every block emit_facts has visited contributed to cfg_edge exactly
\* max(n-1, 0) intra-block edges (block,i-1)->(block,i), 1 <= i < n, followed by one
\* edge (block, max(n-1, 0))->(successor, 0) per declared successor, and nothing
\* else; this includes the blocks with n = 0.
CfgCompleteness ==
    /\ Len(facts.cfg_edge) = EdgeOffset(block_pos)
    /\ \A b \in 1..(block_pos - 1) :
          LET n == Len(Blocks[b].statements)
              name == Blocks[b].name
              succ == Blocks[b].successors
              off == EdgeOffset(b)
          IN  /\ \A i \in 1..(n - 1) :
                    facts.cfg_edge[off + i] = <<node_at(name, i - 1), node_at(name, i)>>
              /\ \A j \in 1..Len(succ) :
                    facts.cfg_edge[off + Max(n - 1, 0) + j] =
                        <<node_at(name, Max(n - 1, 0)), node_at(succ[j], 0)>>

\* an empty block with a successor and a block of two statements have been emitted
CfgCompletenessWitness ==
    /\ pc = "done"
    /\ \E b \in 1..Len(Blocks) :
          Len(Blocks[b].statements) = 0 /\ Len(Blocks[b].successors) >= 1
    /\ \E b \in 1..Len(Blocks) : Len(Blocks[b].statements) >= 2
    /\ Len(facts.cfg_edge) >= 2

----------------------------------------------------------------------------
(* C2  Loan invalidation on reassignment *)

RECURSIVE HasBorrowMut(_)
HasBorrowMut(expr) ==
    CASE expr.tag = "Access" -> expr.kind.tag = "BorrowMut"
      [] expr.tag = "Call" ->
            \E k \in 1..Len(expr.arguments) : HasBorrowMut(expr.arguments[k])
      [] OTHER -> FALSE

\* C2: an emitted Assign(p, e) at node N whose place p resolves to a non-reference
\* type has put invalidate_origin(o, N) once per loan (o, location) the Loan Index
\* records for p, in the index's order, wherever the borrow sits in the program;
\* these are all the invalidations at N unless e itself borrows mutably.
LoanInvalidationOnReassignment ==
    \A sl \in Emitted :
        LET s == StmtAt(sl[1], sl[2])
            N == NodeOf(sl[1], sl[2])
        IN  (s.tag = "Assign" /\ ~is_ref(ty_and_origins_of_place(s.place).ty))
            => /\ IsPrefix(LoanOrigins(s.place), OriginsAt("invalidate_origin", N))
               /\ ~HasBorrowMut(s.expr)
                    => OriginsAt("invalidate_origin", N) = LoanOrigins(s.place)

\* `x = 0` alone in a first block without successors, the borrow `r = &'o x` in the
\* second block: the borrow is later in the program and cannot reach the assignment
LoanInvalidationWitness ==
    /\ pc = "done"
    /\ Len(Blocks) = 2
    /\ Blocks[1].successors = <<>>
    /\ Len(Blocks[1].statements) = 1
    /\ Blocks[1].statements[1].tag = "Assign"
    /\ Blocks[1].statements[1].place = PX
    /\ Blocks[1].statements[1].expr = Number
    /\ LoanOrigins(PX) = <<"'o">>
    /\ LoansOf(PX)[1][2] = Location(1, 0)
    /\ OriginsAt("invalidate_origin", NodeOf(1, 1)) = <<"'o">>

----------------------------------------------------------------------------
(* C3  Field resolution with generics *)

\* the emitted statements that read the place v.f by copy or move
ReadsOfVf ==
    { sl \in Emitted :
        /\ StmtAt(sl[1], sl[2]).expr.tag = "Access"
        /\ StmtAt(sl[1], sl[2]).expr.kind.tag \in {"Copy", "Move"}
        /\ StmtAt(sl[1], sl[2]).expr.place = PVf }

\* C3 as stated: with struct S<'a, T> { f: T } and v: S<'a, &'b i32>, resolving v.f
\* yields the type &'b i32 and the origin list ['b].
FieldResolutionAsClaimed ==
    \A sl \in ReadsOfVf :
        /\ ty_and_origins_of_place(PVf).ty = Ref("'b", I32)
        /\ ty_and_origins_of_place(PVf).origins = <<"'b">>
        /\ OriginsAt("access_origin", NodeOf(sl[1], sl[2])) = <<"'b">>

\* C3, amended: resolving v.f yields the type &'b i32 and the origin list
\* ['a, 'b, 'b]: the origins of the parent type S<'a, &'b i32>, then those of the
\* field's substituted type; a read of v.f accesses exactly these, in this order.
FieldResolutionWithGenerics ==
    \A sl \in ReadsOfVf :
        /\ ty_and_origins_of_place(PVf).ty = Ref("'b", I32)
        /\ ty_and_origins_of_place(PVf).origins = <<"'a", "'b", "'b">>
        /\ OriginsAt("access_origin", NodeOf(sl[1], sl[2])) = <<"'a", "'b", "'b">>
        /\ StmtAt(sl[1], sl[2]).tag = "Assign"
              => SubsetsAt(NodeOf(sl[1], sl[2])) = <<<<"'b", "'a">>>>

\* `r = move v.f` has been emitted
FieldResolutionWitness ==
    /\ pc = "done"
    /\ ReadsOfVf # {}
    /\ \E i \in 1..Len(facts.access_origin) : facts.access_origin[i][1] = "'b"

----------------------------------------------------------------------------
(* What an expression's evaluation contributes to each relation, read off   *)
(* the expression from left to right                                        *)

RECURSIVE ExprClears(_)
RECURSIVE ArgsClears(_, _)
ExprClears(expr) ==
    CASE expr.tag = "Access" /\ expr.kind.tag \in {"Borrow", "BorrowMut"} ->
            <<expr.kind.origin>>
      [] expr.tag = "Call" -> ArgsClears(expr.arguments, 1)
      [] OTHER -> <<>>
ArgsClears(args, k) ==
    IF k > Len(args) THEN <<>> ELSE ExprClears(args[k]) \o ArgsClears(args, k + 1)

RECURSIVE ExprAccesses(_)
RECURSIVE ArgsAccesses(_, _)
ExprAccesses(expr) ==
    CASE expr.tag = "Access" /\ expr.kind.tag \in {"BorrowMut", "Copy", "Move"} ->
            ty_and_origins_of_place(expr.place).origins
      [] expr.tag = "Call" -> ArgsAccesses(expr.arguments, 1)
      [] OTHER -> <<>>
ArgsAccesses(args, k) ==
    IF k > Len(args) THEN <<>> ELSE ExprAccesses(args[k]) \o ArgsAccesses(args, k + 1)

RECURSIVE ExprInvalidates(_)
RECURSIVE ArgsInvalidates(_, _)
ExprInvalidates(expr) ==
    CASE expr.tag = "Access" /\ expr.kind.tag = "BorrowMut" -> LoanOrigins(expr.place)
      [] expr.tag = "Call" -> ArgsInvalidates(expr.arguments, 1)
      [] OTHER -> <<>>
ArgsInvalidates(args, k) ==
    IF k > Len(args) THEN <<>>
    ELSE ExprInvalidates(args[k]) \o ArgsInvalidates(args, k + 1)

\* what the left-hand side of an assignment contributes
LhsClears(s) ==
    IF s.tag = "Assign" THEN ty_and_origins_of_place(s.place).origins ELSE <<>>
LhsInvalidates(s) ==
    IF s.tag = "Assign" /\ ~is_ref(ty_and_origins_of_place(s.place).ty)
    THEN LoanOrigins(s.place) ELSE <<>>

----------------------------------------------------------------------------
(* C4  Assignment of a mutable borrow *)

IsMutBorrowAssign(s) ==
    /\ s.tag = "Assign"
    /\ s.expr.tag = "Access"
    /\ s.expr.kind.tag = "BorrowMut"
    /\ is_ref(ty_and_origins_of_place(s.place).ty)

\* C4: an emitted `x = &'o mut y` at node N, x of type &'a T, has put at N:
\* clear_origin for the origins of x's type, 'a among them, and after these
\* clear_origin('o); access_origin for every origin of y's type; invalidate_origin
\* for every loan recorded for y; and introduce_subset('o, 'a).
MutBorrowAssignment ==
    \A sl \in Emitted :
        LET s == StmtAt(sl[1], sl[2])
            N == NodeOf(sl[1], sl[2])
            lhs == ty_and_origins_of_place(s.place)
            cleared == OriginsAt("clear_origin", N)
        IN  IsMutBorrowAssign(s)
            => /\ cleared = lhs.origins \o <<s.expr.kind.origin>>
               /\ \E k \in 1..Len(lhs.origins) : cleared[k] = lhs.ty.origin
               /\ OriginsAt("access_origin", N)
                    = ty_and_origins_of_place(s.expr.place).origins
               /\ OriginsAt("invalidate_origin", N) = LoanOrigins(s.expr.place)
               /\ SubsetsAt(N) = <<<<s.expr.kind.origin, lhs.ty.origin>>>>

\* `w = &'o mut v` has been emitted twice, so v has a loan besides the new one
MutBorrowAssignmentWitness ==
    /\ pc = "done"
    /\ \E sl \in Emitted :
          /\ IsMutBorrowAssign(StmtAt(sl[1], sl[2]))
          /\ StmtAt(sl[1], sl[2]).expr.place = PV
          /\ Len(LoansOf(PV)) = 2
          /\ OriginsAt("clear_origin", NodeOf(sl[1], sl[2])) = <<"'c", "'a", "'b", "'o">>
          /\ OriginsAt("access_origin", NodeOf(sl[1], sl[2])) = <<"'a", "'b">>
          /\ OriginsAt("invalidate_origin", NodeOf(sl[1], sl[2])) = <<"'o", "'o">>

----------------------------------------------------------------------------
(* C5  Read propagation *)

IsRead(expr) == expr.tag = "Access" /\ expr.kind.tag \in {"Copy", "Move"}

\* a copy or move of a place, or a call all of whose arguments are such reads
ReadsOnly(expr) ==
    \/ IsRead(expr)
    \/ /\ expr.tag = "Call"
       /\ \A k \in 1..Len(expr.arguments) : IsRead(expr.arguments[k])

RECURSIVE ReadOrigins(_, _)
ReadOrigins(places, k) ==
    IF k > Len(places) THEN <<>>
    ELSE ty_and_origins_of_place(places[k]).origins \o ReadOrigins(places, k + 1)

PlacesRead(expr) ==
    IF expr.tag = "Call"
    THEN [k \in 1..Len(expr.arguments) |-> expr.arguments[k].place]
    ELSE <<expr.place>>

\* C5: an emitted statement at node N whose expression only reads places by copy
\* or move (as the expression itself or as call arguments) has put at N
\* access_origin once per origin of each place's resolved list, in order, and the
\* reads have put no clear_origin and no invalidate_origin there: a bare expression
\* statement has none, an assignment only those of its left-hand side.
ReadPropagation ==
    \A sl \in Emitted :
        LET s == StmtAt(sl[1], sl[2])
            N == NodeOf(sl[1], sl[2])
        IN  ReadsOnly(s.expr)
            => /\ OriginsAt("access_origin", N) = ReadOrigins(PlacesRead(s.expr), 1)
               /\ OriginsAt("clear_origin", N) = LhsClears(s)
               /\ OriginsAt("invalidate_origin", N) = LhsInvalidates(s)
               /\ s.tag = "Expr"
                    => /\ OriginsAt("clear_origin", N) = <<>>
                       /\ OriginsAt("invalidate_origin", N) = <<>>

\* `g(copy r, move v)` and the bare read `*r` have been emitted
ReadPropagationWitness ==
    /\ pc = "done"
    /\ \E sl \in Emitted :
          /\ StmtAt(sl[1], sl[2]).tag = "Expr"
          /\ StmtAt(sl[1], sl[2]).expr.tag = "Call"
          /\ OriginsAt("access_origin", NodeOf(sl[1], sl[2])) = <<"'a", "'a", "'b">>
    /\ \E sl \in Emitted :
          /\ StmtAt(sl[1], sl[2]).tag = "Expr"
          /\ IsRead(StmtAt(sl[1], sl[2]).expr)
          /\ OriginsAt("access_origin", NodeOf(sl[1], sl[2])) = <<"'a">>

----------------------------------------------------------------------------
(* C6  Node registration *)

\* the positions of the rendered entries of a node
EntriesOf(node) == { k \in 1..Len(output) : output[k].node = node }

\* the blocks that consist of a single jump: no statement, one successor
JumpOnlyBlocks ==
    { b \in 1..Len(Blocks) :
        Len(Blocks[b].statements) = 0 /\ Len(Blocks[b].successors) = 1 }

\* C6 as stated: under either naming scheme, a block with no statement and one
\* successor has exactly one rendered entry (its node 0), which is the node of no
\* statement of another block, has the text "(pass)" and holds nothing but the goto
\* to the successor's node 0.
NodeRegistration ==
    pc = "done" =>
        \A b \in JumpOnlyBlocks :
            LET N == node_at(Blocks[b].name, 0)
            IN  /\ Cardinality(EntriesOf(N)) = 1
                /\ \A b2 \in 1..Len(Blocks) \ {b} :
                   \A i \in 0..(Len(Blocks[b2].statements) - 1) :
                      node_at(Blocks[b2].name, i) # N
                /\ \A k \in EntriesOf(N) :
                      /\ output[k].text = Pass
                      /\ output[k].lines =
                            <<Line("goto", <<node_at(Blocks[b].successors[1], 0)>>)>>

\* the same with the verbose names "<block>[<index>]" only, where it holds
NodeRegistrationVerbose == ~simple_nodes => NodeRegistration

----------------------------------------------------------------------------
(* C7  Exit node presence *)

\* C7 as stated, for the blocks that hold a statement: for every such block
\* without successors, the block's final node (block, n-1) is a rendered entry
\* whose goto line lists no successor.
ExitNodePresence ==
    pc = "done" =>
        \A b \in 1..Len(Blocks) :
            (Blocks[b].successors = <<>> /\ Len(Blocks[b].statements) >= 1)
            => \E k \in 1..Len(output) :
                  /\ output[k].node =
                        node_at(Blocks[b].name, Max(Len(Blocks[b].statements) - 1, 0))
                  /\ output[k].lines[Len(output[k].lines)] = Line("goto", <<>>)

----------------------------------------------------------------------------
(* C10  Loan Index completeness *)

\* the borrow expressions of an expression, call arguments included: <<place, origin>>
RECURSIVE BorrowsIn(_)
BorrowsIn(expr) ==
    CASE expr.tag = "Access" /\ expr.kind.tag \in {"Borrow", "BorrowMut"} ->
            { <<expr.place, expr.kind.origin>> }
      [] expr.tag = "Call" ->
            UNION { BorrowsIn(expr.arguments[k]) : k \in 1..Len(expr.arguments) }
      [] OTHER -> {}

\* C10 as stated: after FactEmitter::new, for every borrow expression of the
\* program, those in call arguments included, the index entry of the borrowed place
\* contains (origin, location of the enclosing statement).
LoanIndexCompleteness ==
    pc # "new" =>
        \A b \in 1..Len(Blocks) : \A i \in 1..Len(Blocks[b].statements) :
        \A br \in BorrowsIn(StmtAt(b, i).expr) :
            \E k \in 1..Len(LoansOf(br[1])) :
                LoansOf(br[1])[k] = <<br[2], Location(b - 1, i - 1)>>

----------------------------------------------------------------------------
(* C8  Emission order and multiplicity *)

\* the node slots (block position, index), 0 <= index <= max(n-1, 0)
Slots ==
    UNION { { <<b, i>> : i \in 0..Max(Len(Blocks[b].statements) - 1, 0) } :
            b \in 1..Len(Blocks) }
SlotNode(sl) == node_at(Blocks[sl[1]].name, sl[2])
SlotKey(sl) == sl[1] * (MaxSize + 1) + sl[2]

\* for every node name, the position in program traversal order of the first
\* slot that has this name
TraversalKeys ==
    [node \in { SlotNode(sl) : sl \in Slots } |->
        LET named == { SlotKey(sl) : sl \in { t \in Slots : SlotNode(t) = node } }
        IN  CHOOSE k \in named : \A o \in named : k <= o]

\* the tuples of a relation follow program traversal order of the node in `col`
InTraversalOrder(key, rel, col) ==
    /\ \A k \in 1..Len(facts[rel]) : facts[rel][k][col] \in DOMAIN key
    /\ \A k \in 1..(Len(facts[rel]) - 1) :
          key[facts[rel][k][col]] <= key[facts[rel][k + 1][col]]

EmittedNodes == { NodeOf(sl[1], sl[2]) : sl \in Emitted }

\* every tuple of the relation sits at one of the nodes
AtNodes(nodes, rel, col) ==
    \A k \in 1..Len(facts[rel]) : facts[rel][k][col] \in nodes

\* C8: each of the six fact sequences is in program traversal order (block
\* position, then statement index of the emitting statement); at the node of each
\* emitted statement it holds the left-hand-side facts, then the facts of the
\* right-hand expression with call arguments left to right, every one of them,
\* duplicates included, and nothing at any other node; node_text holds one tuple
\* per emitted statement.
EmissionOrderAndMultiplicity ==
    /\ LET key == TraversalKeys
       IN  /\ InTraversalOrder(key, "access_origin", 2)
           /\ InTraversalOrder(key, "cfg_edge", 1)
           /\ InTraversalOrder(key, "clear_origin", 2)
           /\ InTraversalOrder(key, "introduce_subset", 3)
           /\ InTraversalOrder(key, "invalidate_origin", 2)
           /\ InTraversalOrder(key, "node_text", 2)
    /\ LET nodes == EmittedNodes
       IN  /\ AtNodes(nodes, "access_origin", 2)
           /\ AtNodes(nodes, "clear_origin", 2)
           /\ AtNodes(nodes, "introduce_subset", 3)
           /\ AtNodes(nodes, "invalidate_origin", 2)
           /\ AtNodes(nodes, "node_text", 2)
    /\ Len(facts.node_text) = Cardinality(Emitted)
    /\ \A sl \in Emitted :
          LET s == StmtAt(sl[1], sl[2])
              N == NodeOf(sl[1], sl[2])
          IN  /\ OriginsAt("clear_origin", N) = LhsClears(s) \o ExprClears(s.expr)
              /\ OriginsAt("invalidate_origin", N)
                    = LhsInvalidates(s) \o ExprInvalidates(s.expr)
              /\ OriginsAt("access_origin", N) = ExprAccesses(s.expr)
              /\ OriginsAt("node_text", N) = <<StatementText(s)>>
              /\ Len(SubsetsAt(N)) <= 1

\* `m = &'m mut x` with m: &'m mut i32 has put clear_origin('m) twice at its node,
\* and statements of two blocks have been emitted
EmissionOrderWitness ==
    /\ pc = "done"
    /\ Len(Blocks) = 2
    /\ Len(Blocks[1].statements) >= 1
    /\ Len(Blocks[2].statements) >= 1
    /\ \E sl \in Emitted :
          /\ StmtAt(sl[1], sl[2]).place = PM
          /\ OriginsAt("clear_origin", NodeOf(sl[1], sl[2])) = <<"'m", "'m">>

----------------------------------------------------------------------------
(* C9  Rendered node layout *)

RelationRank(rel) ==
    CASE rel = "access_origin" -> 1
      [] rel = "invalidate_origin" -> 2
      [] rel = "clear_origin" -> 3
      [] rel = "introduce_subset" -> 4
      [] rel = "goto" -> 5

\* the arguments of the lines of one relation in an entry, in order
ArgsOfLines(lines, rel) ==
    LET sel == SelectSeq(lines, LAMBDA l : l.rel = rel)
    IN  [k \in 1..Len(sel) |-> sel[k].args]

\* the tuples of a relation at a node without the node, in emission order
TuplesAt(rel, node) ==
    LET sel == SelectSeq(facts[rel], LAMBDA t : t[Len(t)] = node)
    IN  [k \in 1..Len(sel) |-> SubSeq(sel[k], 1, Len(sel[k]) - 1)]

\* the targets of the cfg edges that leave a node, in emission order
EdgeTargets(node) ==
    LET sel == SelectSeq(facts.cfg_edge, LAMBDA t : t[1] = node)
    IN  [k \in 1..Len(sel) |-> sel[k][2]]

\* C9: the rendered entries are in ascending string order of their node names;
\* in each entry the access_origin lines come first, then the invalidate_origin,
\* clear_origin and introduce_subset lines, each relation's in emission order,
\* then exactly one goto line, the last, with the target of every cfg_edge that
\* leaves the node, in emission order.
RenderedNodeLayout ==
    pc = "done" =>
        /\ \A k \in 1..(Len(output) - 1) : StrLess(output[k].node, output[k + 1].node)
        /\ \A k \in 1..Len(output) :
              LET node == output[k].node
                  lines == output[k].lines
              IN  /\ \A i \in 1..(Len(lines) - 1) :
                        RelationRank(lines[i].rel) <= RelationRank(lines[i + 1].rel)
                  /\ Len(lines) >= 1
                  /\ lines[Len(lines)].rel = "goto"
                  /\ Len(ArgsOfLines(lines, "goto")) = 1
                  /\ lines[Len(lines)].args = EdgeTargets(node)
                  /\ \A rel \in {"access_origin", "invalidate_origin",
                                 "clear_origin", "introduce_subset"} :
                        ArgsOfLines(lines, rel) = TuplesAt(rel, node)

\* the entry of "bb0[0]" precedes the entry of "bb1[0]" although bb1 is the
\* program's first block; the entry of bb1[0] holds lines of three relations and a
\* goto with two targets
RenderedNodeLayoutWitness ==
    /\ pc = "done"
    /\ ~simple_nodes
    /\ Len(output) = 2
    /\ output[1].node = node_at(BlockNames[2], 0)
    /\ output[2].node = node_at(BlockNames[1], 0)
    /\ Len(output[2].lines) >= 4
    /\ Len(output[2].lines[Len(output[2].lines)].args) = 2

----------------------------------------------------------------------------
(* C11  Subset emission *)

\* what the claim lets a statement put into introduce_subset: (source, target)
ExpectedSubsets(s) ==
    IF s.tag = "Assign" /\ is_ref(ty_and_origins_of_place(s.place).ty)
    THEN LET target == ty_and_origins_of_place(s.place).ty.origin
         IN  IF s.expr.tag = "Access" /\ s.expr.kind.tag \in {"Borrow", "BorrowMut"}
             THEN << <<s.expr.kind.origin, target>> >>
             ELSE IF /\ s.expr.tag = "Access"
                     /\ s.expr.kind.tag \in {"Copy", "Move"}
                     /\ is_ref(ty_and_origins_of_place(s.expr.place).ty)
                  THEN << <<ty_and_origins_of_place(s.expr.place).ty.origin, target>> >>
                  ELSE <<>>
    ELSE <<>>

\* C11: an emitted statement has put at most one introduce_subset fact at its
\* node, a bare expression statement none; an assignment to a place whose
\* resolved type is a reference with origin t has put exactly
\* introduce_subset(o, t) when its expression is a borrow with origin o of any
\* place, or a copy or move of a place whose resolved type is a reference with
\* origin o, and nothing in every other case; introduce_subset holds nothing else.
SubsetEmission ==
    /\ LET nodes == EmittedNodes
       IN  AtNodes(nodes, "introduce_subset", 3)
    /\ \A sl \in Emitted :
          LET s == StmtAt(sl[1], sl[2])
              subs == SubsetsAt(NodeOf(sl[1], sl[2]))
          IN  /\ Len(subs) <= 1
              /\ s.tag = "Expr" => subs = <<>>
              /\ subs = ExpectedSubsets(s)

\* `r = copy m` has put introduce_subset('m, 'a) and `r = copy x`, whose
\* right-hand place is no reference, has put nothing
SubsetEmissionWitness ==
    /\ pc = "done"
    /\ \E sl \in Emitted :
          /\ StmtAt(sl[1], sl[2]).expr = Access(Copy, PM)
          /\ SubsetsAt(NodeOf(sl[1], sl[2])) = << <<"'m", "'a">> >>
    /\ \E sl \in Emitted :
          /\ StmtAt(sl[1], sl[2]).tag = "Assign"
          /\ StmtAt(sl[1], sl[2]).expr = Access(Copy, PX)
          /\ SubsetsAt(NodeOf(sl[1], sl[2])) = <<>>
    /\ Len(facts.introduce_subset) = 1

----------------------------------------------------------------------------
(* C12  Letter overflow *)

\* the statements of the blocks declared before block b
RECURSIVE StatementsBefore(_)
StatementsBefore(b) ==
    IF b <= 1 THEN 0 ELSE Len(Blocks[b - 1].statements) + StatementsBefore(b - 1)

\* position of a statement among all statements of the program, from 0
FlattenedPosition(b, i) == StatementsBefore(b) + (i - 1)

\* the names 'a' .. 'z'
Letters == { <<c>> : c \in 97..122 }

\* C12: under the single-letter naming, the node of an emitted statement at
\* flattened position k is the k-th letter from 'a'; no statement at flattened
\* position 26 or more has been emitted (naming it ends the run with a panic),
\* and every node name that the facts hold is a letter.
LetterOverflowIsFatal ==
    simple_nodes =>
        /\ \A sl \in Emitted :
              /\ FlattenedPosition(sl[1], sl[2]) < 26
              /\ NodeOf(sl[1], sl[2]) = <<97 + FlattenedPosition(sl[1], sl[2])>>
        /\ RenderedNodes(facts) \subseteq Letters
        /\ \A k \in 1..Len(facts.node_text) : facts.node_text[k][2] \in Letters

\* the part of C12 below the overflow: the statements at flattened positions
\* 0 .. 25 are named 'a' .. 'z' in order
LettersFromA ==
    simple_nodes =>
        \A sl \in Emitted :
            FlattenedPosition(sl[1], sl[2]) < 26 =>
                NodeOf(sl[1], sl[2]) = <<97 + FlattenedPosition(sl[1], sl[2])>>

====
